---- MODULE Spec2Model ----
(***************************************************************************)
(* Venom crawl orchestration: the Frontier (jobs table of VenomDatabase), *)
(* the JobQueue scheduler with its PQueue worker pool, the Crawler's      *)
(* admission filter and URL normaliser, and the Venom.crawl handler.      *)
(*                                                                         *)
(* One action of the model is one macrotask of the Node.js event loop:    *)
(* the synchronous code that runs when a timer or an I/O completion       *)
(* fires, followed by the promise continuations (microtasks) it unblocks. *)
(* better-sqlite3 is synchronous, so every database call is atomic.       *)
(***************************************************************************)
EXTENDS Integers, Sequences, FiniteSets, TLC

(***************************************************************************)
(* Bounds and configuration of the checked instance.                       *)
(***************************************************************************)
Concurrency == 2        \* config.crawler.concurrency handed to PQueue
MaxRetries == 1         \* JobQueue constructor parameter maxRetries
MaxDepth == 1           \* largest config.crawler.maxDepth tried
MaxUrlsOpt == 1         \* largest options.maxUrls tried; 0 stands for "not given"
MaxUrlsPerDomain == 2   \* config.crawler.maxUrlsPerDomain
BatchSize == 2          \* limit of the batch query of JobQueue.process
CheckSize == 1          \* limit of the second (empty-check) query

(***************************************************************************)
(* URLs.  A URL string is modelled by its parsed WHATWG components; the   *)
(* serialisation of a parsed URL is one-to-one on these records.          *)
(*   path  : the segments of the pathname, <<>> is the root "/"           *)
(*   slash : the pathname ends with "/" (only meaningful off the root)    *)
(*   query : a non-tracking query parameter is present ("?q=1")           *)
(*   track : a tracking query parameter is present ("utm_source=y")       *)
(*   frag  : a fragment is present ("#frag")                              *)
(***************************************************************************)
MkUrl(scheme, host, path, slash, query, track, frag) ==
    [scheme |-> scheme, host |-> host, path |-> path, slash |-> slash,
     query |-> query, track |-> track, frag |-> frag]

Page(host, path, slash) == MkUrl("https:", host, path, slash, FALSE, FALSE, FALSE)

NoUrl == MkUrl("", "", <<>>, FALSE, FALSE, FALSE, FALSE)   \* undefined parentUrl

\* Characters of the hostnames and domain patterns that occur, for String.includes.
Chars(s) ==
    CASE s = "a.com"     -> <<"a", ".", "c", "o", "m">>
      [] s = "ads.a.com" -> <<"a", "d", "s", ".", "a", ".", "c", "o", "m">>
      [] s = "b.org"     -> <<"b", ".", "o", "r", "g">>
      [] OTHER           -> <<>>

\* String.prototype.includes: d occurs in h as a contiguous substring.
Includes(h, d) ==
    LET hs == Chars(h)
        ds == Chars(d)
    IN  \E i \in 0..Len(hs) :
            /\ i + Len(ds) <= Len(hs)
            /\ \A k \in 1..Len(ds) : hs[i + k] = ds[k]

\* Crawler.normalizeUrl: drop the fragment and the tracking parameters, then
\* drop a trailing "/" of the serialised string unless the pathname is "/".
normalizeUrl(u) ==
    LET v == [u EXCEPT !.frag = FALSE, !.track = FALSE]
        endsWithSlash == ~v.query /\ (v.slash \/ v.path = <<>>)
    IN  IF endsWithSlash /\ v.path # <<>> THEN [v EXCEPT !.slash = FALSE] ELSE v

\* Crawler.getDomain
getDomain(u) == u.host

(***************************************************************************)
(* The crawled web: the pages and, for each, the anchors that extractLinks *)
(* reports (hrefs are absolute and deduplicated by raw string).           *)
(***************************************************************************)
Root == Page("a.com", <<>>, FALSE)
PX == Page("a.com", <<"x">>, FALSE)
PXs == Page("a.com", <<"x">>, TRUE)
PY == Page("a.com", <<"y">>, FALSE)
PAds == Page("ads.a.com", <<"z">>, FALSE)
POut == Page("b.org", <<>>, FALSE)

PFtp == MkUrl("ftp:", "a.com", <<"f">>, FALSE, FALSE, FALSE, FALSE)
RootFrag == MkUrl("https:", "a.com", <<>>, FALSE, FALSE, FALSE, TRUE)
PXTrack == MkUrl("https:", "a.com", <<"x">>, FALSE, FALSE, TRUE, FALSE)
PW == Page("a.com", <<"w">>, FALSE)
PV == Page("a.com", <<"v">>, FALSE)

SeedUrls == {Root, PXs}
PolicySeeds == {Root, PAds}
CapSeeds == {Root, PW}
DirectUrls == {PX, PY, POut}
Urls == {Root, PX, PXs, PY, PAds, POut}

Anchors(u) ==
    CASE u = Root -> <<PX, PAds, PY, POut, PXs>>
      [] u = PX   -> <<PY, Root>>
      [] u = PXs  -> <<Root, PY>>
      [] u = PW   -> <<PV>>
      [] OTHER    -> <<>>

\* The pages whose load can fail, and the pages robots.txt disallows.
Flaky == {PXs, PX}
Disallowed == {PY}
CaptionThrows == {Root}

\* extractLinks: isInternal compares the anchor's hostname with the page's.
isInternal(link, base) ==
    \/ link.host = base.host
    \/ \E k \in 1..Len(Chars(link.host)) :
          /\ Chars(link.host)[k] = "."
          /\ SubSeq(Chars(link.host), k + 1, Len(Chars(link.host))) = Chars(base.host)

blockedDomains == <<"ads.a.com">>
allowedDomains == <<>>

(***************************************************************************)
(* State.                                                                  *)
(***************************************************************************)
NoProbe == [called |-> FALSE]

(***************************************************************************)
(* robots.ts: the module-level cache and the calls of checkRobotsTxt.      *)
(***************************************************************************)
MaxChecks == 2          \* calls of checkRobotsTxt
RobotDomains == {"a.com", "b.org"}

\* What a robots.txt body parses to: whether it disallows the URL checked,
\* and the sitemaps it lists.
Bodies == {[disallow |-> FALSE, sitemaps |-> <<>>],
           [disallow |-> TRUE, sitemaps |-> <<"sitemap.xml">>]}
NoRules == [disallow |-> FALSE, sitemaps |-> <<"-">>]   \* no entry in the Map
NoResult == [isAllowed |-> FALSE, sitemaps |-> <<"-">>]
IdleCall == [phase |-> "idle", domain |-> "", outcome |-> "", result |-> NoResult]

NoRobots ==
    [cache |-> [d \in RobotDomains |-> NoRules],
     calls |-> [c \in 1..MaxChecks |-> IdleCall],
     fetches |-> [d \in RobotDomains |-> 0]]

\* checkRobotsTxt once fetchRobotsTxt has returned `parser` (NoRules: null).
checkResult(parser) ==
    IF parser = NoRules THEN [isAllowed |-> TRUE, sitemaps |-> <<>>]
    ELSE [isAllowed |-> ~parser.disallow, sitemaps |-> parser.sitemaps]

\* fetchRobotsTxt on a response that is not ok, mutated: allow-all is cached.
onNotOkCached(cache, d) == [cache EXCEPT ![d] = [disallow |-> FALSE, sitemaps |-> <<>>]]

\* fetchRobotsTxt on a response that is not ok, or on a failed fetch: the
\* cache is left as it is.
onNotOk(cache, d) == cache

\* fetchRobotsTxt on an ok response: robotsCache.set(domain, parser).
onOk(cache, d, body) == [cache EXCEPT ![d] = body]

VARIABLES
    jobs,          \* jobs table in rowid (insertion) order; a job's id is its index
    captures,      \* normalized_url column of the captures table
    visited,       \* Crawler.visitedUrls
    poolQ,         \* PQueue: tasks added and not yet started (queue.size)
    running,       \* PQueue: tasks started and not yet settled (queue.pending)
    paused,        \* PQueue: isPaused
    isProcessing,  \* JobQueue.isProcessing
    pc,            \* where JobQueue.process is suspended
    maxUrls,       \* options.maxUrls of Venom.crawl; 0 is also `undefined`, which `maxUrls &&` treats alike
    maxDepth,      \* config.crawler.maxDepth
    concurrency,   \* config.crawler.concurrency, the concurrency of the PQueue
    released,      \* what Venom.close has released: "none", "browser", "all"
    probe,         \* the last call of a function on its own: arguments and result
    robots,        \* robots.ts: robotsCache, the checkRobotsTxt calls, fetches issued
    urlsCrawled,   \* the local counter of Venom.crawl
    stats,         \* Venom.stats
    clock,         \* the last value new Date() returned, in milliseconds
    ret,           \* observation: the url and the result of the last addUrl call
    lateSettled    \* observation: a handler finished after stop() had been called

vars == <<jobs, captures, visited, poolQ, running, paused, isProcessing, pc,
          maxUrls, maxDepth, concurrency, released, probe, robots, urlsCrawled, stats, clock, ret, lateSettled>>

Priorities == {"high", "normal", "low"}

\* The CASE expression of the ORDER BY clause.
Rank(p) == CASE p = "high" -> 1 [] p = "normal" -> 2 [] OTHER -> 3

RemoveAt(s, k) == SubSeq(s, 1, k - 1) \o SubSeq(s, k + 1, Len(s))

(***************************************************************************)
(* VenomDatabase: the operations on the jobs and captures tables.          *)
(***************************************************************************)
\* urlExists, mutated: only the captures table is consulted.
urlExistsCapturesOnly(js, caps, u) == u \in caps

\* urlExists: a job row with this url string, or a capture whose
\* normalized_url equals this url string.
urlExists(js, caps, u) ==
    \/ \E i \in DOMAIN js : js[i].url = u
    \/ u \in caps

\* addJob: INSERT OR IGNORE keyed by the id, a fresh UUID, so the row is added.
addJob(js, job) == Append(js, job)

\* A sort key that leaves out the priority CASE of the ORDER BY.
KeyLEByTime(a, b) == a.createdAt <= b.createdAt

\* The sort key of getPendingJobs: priority rank, then created_at.
KeyLE(a, b) ==
    \/ Rank(a.priority) < Rank(b.priority)
    \/ Rank(a.priority) = Rank(b.priority) /\ a.createdAt <= b.createdAt

\* The results an ORDER BY ... LIMIT n over the rows P may return: rows with
\* equal sort keys come in an order SQL leaves to the engine.
RECURSIVE OrderedRows(_, _, _)
OrderedRows(js, P, n) ==
    IF n = 0 \/ P = {} THEN {<<>>}
    ELSE LET least == {i \in P : \A j \in P : KeyLE(js[i], js[j])}
         IN  UNION {{<<i>> \o s : s \in OrderedRows(js, P \ {i}, n - 1)} : i \in least}

\* getPendingJobs(limit): the set of possible results, each a sequence of job ids.
getPendingJobs(js, limit) ==
    OrderedRows(js, {i \in DOMAIN js : js[i].status = "pending"}, limit)

\* updateJobStatus writing created_at as it writes updated_at.
updateJobStatusTouched(js, i, status) ==
    [js EXCEPT ![i].status = status, ![i].createdAt = @ + 1]

\* updateJobStatus
updateJobStatus(js, i, status) == [js EXCEPT ![i].status = status]

\* incrementJobRetry adding two.
incrementJobRetryTwice(js, i) == [js EXCEPT ![i].retryCount = @ + 2]

\* incrementJobRetry
incrementJobRetry(js, i) == [js EXCEPT ![i].retryCount = @ + 1]

(***************************************************************************)
(* JobQueue.addUrl                                                         *)
(***************************************************************************)
NewJob(u, depth, parentUrl, priority, now) ==
    [url |-> u, depth |-> depth, parentUrl |-> parentUrl, priority |-> priority,
     status |-> "pending", retryCount |-> 0, createdAt |-> now]

\* The jobs table after addUrl; it is unchanged exactly when addUrl returns null.
addUrl(js, caps, u, depth, parentUrl, priority, now) ==
    IF urlExists(js, caps, u) THEN js
    ELSE addJob(js, NewJob(u, depth, parentUrl, priority, now))

(***************************************************************************)
(* Crawler: admission filter and link selection.                           *)
(***************************************************************************)
\* shouldCrawl with the allow list consulted before the block list.
shouldCrawlAllowFirst(vis, u, blocked, allowed) ==
    /\ normalizeUrl(u) \notin vis
    /\ u.scheme \in {"http:", "https:"}
    /\ \/ \E k \in DOMAIN allowed : Includes(getDomain(u), allowed[k])
       \/ /\ Len(allowed) = 0
          /\ ~\E k \in DOMAIN blocked : Includes(getDomain(u), blocked[k])

\* shouldCrawl under the configuration (blockedDomains, allowedDomains).
shouldCrawlWith(vis, u, blocked, allowed) ==
    IF normalizeUrl(u) \in vis THEN FALSE
    ELSE IF u.scheme \notin {"http:", "https:"} THEN FALSE
    ELSE IF \E k \in DOMAIN blocked : Includes(getDomain(u), blocked[k]) THEN FALSE
    ELSE IF Len(allowed) > 0 /\ ~\E k \in DOMAIN allowed : Includes(getDomain(u), allowed[k])
         THEN FALSE
    ELSE TRUE

\* shouldCrawl
shouldCrawl(vis, u) == shouldCrawlWith(vis, u, blockedDomains, allowedDomains)

RECURSIVE Filter(_, _, _)
Filter(links, base, vis) ==
    IF links = <<>> THEN <<>>
    ELSE IF isInternal(Head(links), base) /\ shouldCrawl(vis, Head(links))
         THEN <<Head(links)>> \o Filter(Tail(links), base, vis)
         ELSE Filter(Tail(links), base, vis)

\* getLinksToFollow(capture, maxDepth) for the capture of page u at this depth.
getLinksToFollow(u, depth, depthLimit, vis) ==
    IF depth >= depthLimit THEN <<>>
    ELSE LET kept == Filter(Anchors(u), u, vis)
         IN  SubSeq(kept, 1, IF Len(kept) < MaxUrlsPerDomain THEN Len(kept) ELSE MaxUrlsPerDomain)

(***************************************************************************)
(* The scheduler machine.  The synchronous parts of JobQueue.process, of  *)
(* PQueue and of the handler work on a record m of the fields they touch: *)
(*   m.jobs, m.poolQ, m.running, m.paused, m.isProcessing, m.pc           *)
(* uc is the value of the crawl's local urlsCrawled counter.              *)
(***************************************************************************)
Machine ==
    [jobs |-> jobs, poolQ |-> poolQ, running |-> running, paused |-> paused,
     isProcessing |-> isProcessing, pc |-> pc]

\* JobQueue.stop
stop(m) == [m EXCEPT !.isProcessing = FALSE, !.paused = TRUE]

\* The handler without its URL-limit test: it always goes on to the delay.
HandlerEnterNoLimit(m, t, uc) ==
    [m EXCEPT !.running = Append(@, [t EXCEPT !.phase = "delay"])]

\* The handler of Venom.crawl up to its first await, run by PQueue when it
\* starts task t: at the URL limit it stops the queue and returns at once,
\* otherwise it suspends in the rate-limit delay.
HandlerEnter(m, t, uc) ==
    IF maxUrls # 0 /\ uc >= maxUrls
    THEN [stop(m) EXCEPT !.running = Append(@, [t EXCEPT !.phase = "returned"])]
    ELSE [m EXCEPT !.running = Append(@, [t EXCEPT !.phase = "delay"])]

\* PQueue, mutated: the concurrency limit is not consulted.
MayStartUnbounded(m) == m.poolQ # <<>> /\ ~m.paused

\* PQueue: a queued task may start when the queue is not paused and fewer
\* than `concurrency` tasks are pending.
MayStart(m) == m.poolQ # <<>> /\ ~m.paused /\ Len(m.running) < concurrency

\* PQueue tryToStartAnother: start the head of the FIFO queue if allowed;
\* with nothing queued and nothing pending the queue is idle, which resolves
\* the onIdle promise JobQueue.process may be waiting on.
tryToStartAnother(m, uc) ==
    IF m.poolQ = <<>>
    THEN IF m.running = <<>> /\ m.pc = "drain"
         THEN [m EXCEPT !.pc = "returned", !.isProcessing = FALSE]
         ELSE m
    ELSE IF MayStart(m)
         THEN HandlerEnter([m EXCEPT !.poolQ = Tail(@)], Head(m.poolQ), uc)
         ELSE m

\* The task wrapper without its catch block: a thrown exception leaves the
\* job as it is and halts the scheduler.
SettleUncaught(m, k, ok, uc) ==
    IF ok
    THEN tryToStartAnother([m EXCEPT !.jobs = updateJobStatus(@, m.running[k].job, "completed"),
                                     !.running = RemoveAt(@, k)], uc)
    ELSE stop([m EXCEPT !.running = RemoveAt(@, k)])

\* The task wrapper, mutated: the retry test reads the incremented count.
SettleIncremented(m, k, ok, uc) ==
    LET t == m.running[k]
        js == IF ok THEN updateJobStatus(m.jobs, t.job, "completed")
              ELSE IF t.retryCount + 1 < MaxRetries
                   THEN updateJobStatus(incrementJobRetry(m.jobs, t.job), t.job, "pending")
                   ELSE updateJobStatus(incrementJobRetry(m.jobs, t.job), t.job, "failed")
    IN  tryToStartAnother([m EXCEPT !.jobs = js, !.running = RemoveAt(@, k)], uc)

\* The task wrapper of JobQueue.process after the handler of running[k] has
\* returned (ok) or thrown: the job's transition, then PQueue's next().
\* The retry test reads job.retryCount of the row as it was pulled.
Settle(m, k, ok, uc) ==
    LET t == m.running[k]
        js == IF ok THEN updateJobStatus(m.jobs, t.job, "completed")
              ELSE IF t.retryCount < MaxRetries
                   THEN updateJobStatus(incrementJobRetry(m.jobs, t.job), t.job, "pending")
                   ELSE updateJobStatus(incrementJobRetry(m.jobs, t.job), t.job, "failed")
    IN  tryToStartAnother([m EXCEPT !.jobs = js, !.running = RemoveAt(@, k)], uc)

\* The promise continuations that run before the next macrotask: every
\* handler that returned without suspending is settled.
RECURSIVE RunMicrotasks(_, _)
RunMicrotasks(m, uc) ==
    IF \E k \in DOMAIN m.running : m.running[k].phase = "returned"
    THEN LET k == CHOOSE k \in DOMAIN m.running :
                      /\ m.running[k].phase = "returned"
                      /\ \A l \in 1..(k - 1) : m.running[l].phase # "returned"
         IN  RunMicrotasks(Settle(m, k, TRUE, uc), uc)
    ELSE m

\* The body of the for loop of JobQueue.process for one pulled row: mark it
\* crawling and add its task to the pool, which may start a task at once.
\* js0 is the batch as it was read, the job objects the closures capture.
SubmitMarked(m, i, js0, uc) ==
    tryToStartAnother(
        [m EXCEPT !.jobs = updateJobStatus(@, i, "crawling"),
                  !.poolQ = Append(@, [job |-> i, retryCount |-> js0[i].retryCount,
                                       phase |-> "queued"])], uc)

\* JobQueue.process, mutated: the pulled row is not marked crawling.
SubmitUnmarked(m, i, js0, uc) ==
    tryToStartAnother(
        [m EXCEPT !.poolQ = Append(@, [job |-> i, retryCount |-> js0[i].retryCount,
                                       phase |-> "queued"])], uc)

Submit(m, i, js0, uc) == SubmitMarked(m, i, js0, uc)

RECURSIVE SubmitAll(_, _, _, _)
SubmitAll(m, batch, js0, uc) ==
    IF batch = <<>> THEN m
    ELSE SubmitAll(Submit(m, Head(batch), js0, uc), Tail(batch), js0, uc)

\* `await this.queue.onIdle(); this.isProcessing = false`
AwaitIdle(m) ==
    IF m.poolQ = <<>> /\ m.running = <<>>
    THEN [m EXCEPT !.pc = "returned", !.isProcessing = FALSE]
    ELSE [m EXCEPT !.pc = "drain"]

\* JobQueue.process, mutated: the second check looks at the Frontier only.
FinishedFrontierOnly(m, remaining) == remaining = <<>>

\* The test of the second check: nothing pending, nothing queued, nothing running.
Finished(m, remaining) == remaining = <<>> /\ m.poolQ = <<>> /\ m.running = <<>>

\* JobQueue.process, mutated: the loop does not test isProcessing.
LoopPassUntested(m, batch, uc) ==
    IF batch = <<>> THEN [m EXCEPT !.pc = "wait1000"]
    ELSE RunMicrotasks([SubmitAll(m, batch, m.jobs, uc) EXCEPT !.pc = "wait100"], uc)

\* One pass of the while loop of JobQueue.process from its test to its next
\* await, for the batch that getPendingJobs returned.
LoopPass(m, batch, uc) ==
    IF ~m.isProcessing THEN AwaitIdle(m)
    ELSE IF batch = <<>> THEN [m EXCEPT !.pc = "wait1000"]
    ELSE RunMicrotasks([SubmitAll(m, batch, m.jobs, uc) EXCEPT !.pc = "wait100"], uc)

\* stop() has been called during this run of process.
Stopped == pc # "idle" /\ (paused \/ (~isProcessing /\ pc # "returned"))

Commit(m) ==
    /\ jobs' = m.jobs
    /\ poolQ' = m.poolQ
    /\ running' = m.running
    /\ paused' = m.paused
    /\ isProcessing' = m.isProcessing
    /\ pc' = m.pc

(***************************************************************************)
(* Actions.                                                                *)
(***************************************************************************)
\* The state after `new Venom(config)` with config.crawler.concurrency = c.
InitWith(c) ==
    /\ jobs = <<>>
    /\ captures = {}
    /\ visited = {}
    /\ poolQ = <<>>
    /\ running = <<>>
    /\ paused = TRUE          \* autoStart: false
    /\ isProcessing = FALSE
    /\ pc = "idle"
    /\ maxUrls \in 0..MaxUrlsOpt
    /\ maxDepth \in 0..MaxDepth
    /\ released = "none"
    /\ concurrency = c
    /\ probe = NoProbe
    /\ robots = NoRobots
    /\ urlsCrawled = 0
    /\ stats = [urlsDiscovered |-> 0, urlsCrawled |-> 0, urlsFailed |-> 0, urlsSkipped |-> 0,
               captionsGenerated |-> 0]
    /\ clock = 0
    /\ ret = [url |-> NoUrl, job |-> 0]
    /\ lateSettled = FALSE

Init == InitWith(Concurrency)

\* addSeeds leaving the priority to addUrl's default.
AddSeedNormal(u, now) ==
    /\ pc = "idle"
    /\ jobs' = addUrl(jobs, captures, u, 0, NoUrl, "normal", now)
    /\ stats' = IF jobs' # jobs THEN [stats EXCEPT !.urlsDiscovered = @ + 1] ELSE stats
    /\ clock' = IF jobs' # jobs THEN now ELSE clock
    /\ ret' = [url |-> u, job |-> IF jobs' # jobs THEN Len(jobs') ELSE 0]
    /\ UNCHANGED <<captures, visited, poolQ, running, paused, isProcessing, pc,
                   maxUrls, maxDepth, concurrency, released, probe, robots, urlsCrawled, lateSettled>>

\* Venom.addSeeds for one seed URL, called as the crawl command does before
\* Venom.crawl; new Date() returns the last value read or a later one.
AddSeed(u, now) ==
    /\ pc = "idle"
    /\ jobs' = addUrl(jobs, captures, u, 0, NoUrl, "high", now)
    /\ stats' = IF jobs' # jobs THEN [stats EXCEPT !.urlsDiscovered = @ + 1] ELSE stats
    /\ clock' = IF jobs' # jobs THEN now ELSE clock
    /\ ret' = [url |-> u, job |-> IF jobs' # jobs THEN Len(jobs') ELSE 0]
    /\ UNCHANGED <<captures, visited, poolQ, running, paused, isProcessing, pc,
                   maxUrls, maxDepth, concurrency, released, probe, robots, urlsCrawled, lateSettled>>

\* Venom.crawl calling JobQueue.process: the entry and the first loop pass.
Process ==
    /\ pc = "idle"
    /\ \E batch \in getPendingJobs(jobs, BatchSize) :
           Commit(LoopPass([Machine EXCEPT !.isProcessing = TRUE, !.paused = FALSE],
                           batch, urlsCrawled))
    /\ UNCHANGED <<captures, visited, maxUrls, maxDepth, concurrency, released, probe, robots, urlsCrawled, stats, clock, ret, lateSettled>>

\* The 100 ms delay after a batch was submitted has elapsed.
Wake100 ==
    /\ pc = "wait100"
    /\ \E batch \in getPendingJobs(jobs, BatchSize) :
           Commit(LoopPass(Machine, batch, urlsCrawled))
    /\ UNCHANGED <<captures, visited, maxUrls, maxDepth, concurrency, released, probe, robots, urlsCrawled, stats, clock, ret, lateSettled>>

\* The 1000 ms delay after an empty batch has elapsed: the second check.
Wake1000 ==
    /\ pc = "wait1000"
    /\ \E remaining \in getPendingJobs(jobs, CheckSize) :
           IF Finished(Machine, remaining)
           THEN Commit(AwaitIdle(Machine))
           ELSE \E batch \in getPendingJobs(jobs, BatchSize) :
                    Commit(LoopPass(Machine, batch, urlsCrawled))
    /\ UNCHANGED <<captures, visited, maxUrls, maxDepth, concurrency, released, probe, robots, urlsCrawled, stats, clock, ret, lateSettled>>

\* The rate-limit delay of running[k] has elapsed: crawlUrl marks the URL
\* visited and suspends in the robots check and the page load.
HandlerCrawl(k) ==
    /\ k \in DOMAIN running
    /\ running[k].phase = "delay"
    /\ visited' = visited \cup {normalizeUrl(jobs[running[k].job].url)}
    /\ running' = [running EXCEPT ![k].phase = "fetch"]
    /\ UNCHANGED <<jobs, captures, poolQ, paused, isProcessing, pc, maxUrls, maxDepth, concurrency, released, probe, robots,
                   urlsCrawled, stats, clock, ret, lateSettled>>

\* The handler with a null capture treated as a failure.
HandlerSkippedAsFailure(k) ==
    /\ k \in DOMAIN running
    /\ running[k].phase = "fetch"
    /\ jobs[running[k].job].url \in Disallowed
    /\ stats' = [stats EXCEPT !.urlsFailed = @ + 1]
    /\ Commit(RunMicrotasks(Settle(Machine, k, FALSE, urlsCrawled), urlsCrawled))
    /\ lateSettled' = (lateSettled \/ Stopped)
    /\ UNCHANGED <<captures, visited, maxUrls, maxDepth, concurrency, released, probe, robots, urlsCrawled, clock, ret>>

\* crawlUrl returned null for running[k] (robots.txt disallows the URL).
HandlerSkipped(k) ==
    /\ k \in DOMAIN running
    /\ running[k].phase = "fetch"
    /\ jobs[running[k].job].url \in Disallowed
    /\ stats' = [stats EXCEPT !.urlsSkipped = @ + 1]
    /\ Commit(RunMicrotasks(Settle(Machine, k, TRUE, urlsCrawled), urlsCrawled))
    /\ lateSettled' = (lateSettled \/ Stopped)
    /\ UNCHANGED <<captures, visited, maxUrls, maxDepth, concurrency, released, probe, robots, urlsCrawled, clock, ret>>

\* crawlUrl threw for running[k] (navigation or extraction failed).
HandlerFailed(k) ==
    /\ k \in DOMAIN running
    /\ running[k].phase = "fetch"
    /\ jobs[running[k].job].url \in Flaky
    /\ stats' = [stats EXCEPT !.urlsFailed = @ + 1]
    /\ Commit(RunMicrotasks(Settle(Machine, k, FALSE, urlsCrawled), urlsCrawled))
    /\ lateSettled' = (lateSettled \/ Stopped)
    /\ UNCHANGED <<captures, visited, maxUrls, maxDepth, concurrency, released, probe, robots, urlsCrawled, clock, ret>>

\* Link discovery inserting every link without the existence check.
RECURSIVE EnqueueUnchecked(_, _, _, _, _, _)
EnqueueUnchecked(js, caps, links, depth, parentUrl, times) ==
    IF links = <<>> THEN js
    ELSE EnqueueUnchecked(addJob(js, NewJob(Head(links), depth, parentUrl, "normal", Head(times))),
                          caps, Tail(links), depth, parentUrl, Tail(times))

\* The links of link discovery enqueued one after the other; times[n] is
\* what new Date() returns for the n-th link.
RECURSIVE Enqueue(_, _, _, _, _, _)
Enqueue(js, caps, links, depth, parentUrl, times) ==
    IF links = <<>> THEN js
    ELSE Enqueue(addUrl(js, caps, Head(links), depth, parentUrl, "normal", Head(times)),
                 caps, Tail(links), depth, parentUrl, Tail(times))

\* The non-decreasing readings of the clock for n calls, starting from t.
RECURSIVE Readings(_, _)
Readings(t, n) ==
    IF n = 0 THEN {<<>>}
    ELSE UNION {{<<t1>> \o r : r \in Readings(t1, n - 1)} : t1 \in {t, t + 1}}

\* The depth given to the Jobs of the links found on the page of `job`.
ChildDepthSame(job) == job.depth

ChildDepth(job) == job.depth + 1

\* Link discovery without the two depth tests.
DiscoverAnyDepth(job, vis) == getLinksToFollow(job.url, job.depth, job.depth + 1, vis)

\* The links the handler enqueues for the capture of `job`.
Discover(job, vis) ==
    IF job.depth < maxDepth
    THEN getLinksToFollow(job.url, job.depth, maxDepth, vis)
    ELSE <<>>

\* Link discovery for the capture of running[k] and the handler's return.
\* caps is the captures table, st the statistics and uc the crawl's
\* urlsCrawled counter, each as the handler has left it before.
LinkDiscovery(k, caps, st, uc) ==
    LET job == jobs[running[k].job]
        links == Discover(job, visited)
    IN  \E times \in Readings(clock, Len(links)) :
          LET n == Len(links)
              js1 == Enqueue(jobs, caps, SubSeq(links, 1, n - 1), ChildDepth(job),
                             job.url, times)
              js == Enqueue(jobs, caps, links, ChildDepth(job), job.url, times)
          IN  /\ ret' = IF n = 0 THEN ret
                        ELSE [url |-> links[n],
                              job |-> IF Len(js) > Len(js1) THEN Len(js) ELSE 0]
              /\ lateSettled' = (lateSettled \/ Stopped)
              /\ stats' = [st EXCEPT !.urlsDiscovered = @ + Len(js) - Len(jobs)]
              /\ clock' = IF js = jobs THEN clock ELSE js[Len(js)].createdAt
              /\ Commit(RunMicrotasks(Settle([Machine EXCEPT !.jobs = js], k, TRUE, uc), uc))

\* crawlUrl returned a capture for running[k], without a captioner: count
\* it, save it, enqueue the links to follow, return.
HandlerCaptured(k) ==
    /\ k \in DOMAIN running
    /\ running[k].phase = "fetch"
    /\ jobs[running[k].job].url \notin Disallowed
    /\ captures' = captures \cup {normalizeUrl(jobs[running[k].job].url)}
    /\ urlsCrawled' = urlsCrawled + 1
    /\ LinkDiscovery(k, captures \cup {normalizeUrl(jobs[running[k].job].url)},
                     [stats EXCEPT !.urlsCrawled = @ + 1], urlsCrawled + 1)
    /\ UNCHANGED <<visited, maxUrls, maxDepth, concurrency, released, probe, robots>>

\* crawlUrl returned a capture for running[k], with a captioner: count it,
\* save it and suspend in captioner.caption.
HandlerSaved(k) ==
    /\ k \in DOMAIN running
    /\ running[k].phase = "fetch"
    /\ jobs[running[k].job].url \notin Disallowed
    /\ captures' = captures \cup {normalizeUrl(jobs[running[k].job].url)}
    /\ urlsCrawled' = urlsCrawled + 1
    /\ stats' = [stats EXCEPT !.urlsCrawled = @ + 1]
    /\ running' = [running EXCEPT ![k].phase = "caption"]
    /\ UNCHANGED <<jobs, visited, poolQ, paused, isProcessing, pc, maxUrls, maxDepth, concurrency, released,
                   probe, robots, clock, ret, lateSettled>>

\* A failed captioning call treated as a failure of the handler.
HandlerCaptionThrewAsFailure(k) ==
    /\ k \in DOMAIN running
    /\ running[k].phase = "caption"
    /\ jobs[running[k].job].url \in CaptionThrows
    /\ stats' = [stats EXCEPT !.urlsFailed = @ + 1]
    /\ Commit(RunMicrotasks(Settle(Machine, k, FALSE, urlsCrawled), urlsCrawled))
    /\ lateSettled' = (lateSettled \/ Stopped)
    /\ UNCHANGED <<captures, visited, maxUrls, maxDepth, concurrency, released, probe, robots, urlsCrawled,
                   clock, ret>>

\* captioner.caption returned for running[k]: count the caption, then link
\* discovery.
HandlerCaptioned(k) ==
    /\ k \in DOMAIN running
    /\ running[k].phase = "caption"
    /\ jobs[running[k].job].url \notin CaptionThrows
    /\ LinkDiscovery(k, captures, [stats EXCEPT !.captionsGenerated = @ + 1], urlsCrawled)
    /\ UNCHANGED <<captures, visited, maxUrls, maxDepth, concurrency, released, probe, robots, urlsCrawled>>

\* captioner.caption threw for running[k]: the inner catch logs it, then
\* link discovery.
HandlerCaptionThrew(k) ==
    /\ k \in DOMAIN running
    /\ running[k].phase = "caption"
    /\ jobs[running[k].job].url \in CaptionThrows
    /\ LinkDiscovery(k, captures, stats, urlsCrawled)
    /\ UNCHANGED <<captures, visited, maxUrls, maxDepth, concurrency, released, probe, robots, urlsCrawled>>

Next ==
    \/ \E u \in SeedUrls, now \in {clock, clock + 1} : AddSeed(u, now)
    \/ Process
    \/ Wake100
    \/ Wake1000
    \/ \E k \in DOMAIN running : HandlerCrawl(k)
    \/ \E k \in DOMAIN running : HandlerSkipped(k)
    \/ \E k \in DOMAIN running : HandlerFailed(k)
    \/ \E k \in DOMAIN running : HandlerCaptured(k)

Spec == Init /\ [][Next]_vars

\* The crawl with a captioner configured and captionOnCrawl left on.
NextCaption ==
    \/ \E u \in SeedUrls, now \in {clock, clock + 1} : AddSeed(u, now)
    \/ Process
    \/ Wake100
    \/ Wake1000
    \/ \E k \in DOMAIN running : HandlerCrawl(k)
    \/ \E k \in DOMAIN running : HandlerSkipped(k)
    \/ \E k \in DOMAIN running : HandlerFailed(k)
    \/ \E k \in DOMAIN running : HandlerSaved(k)
    \/ \E k \in DOMAIN running : HandlerCaptioned(k)
    \/ \E k \in DOMAIN running : HandlerCaptionThrew(k)

SpecCaption == Init /\ [][NextCaption]_vars

\* A caller of the JobQueue API adding a URL with a priority of its choice
\* (depth 0, no parent) before process is called.
AddUrlDirect(u, priority, now) ==
    /\ pc = "idle"
    /\ jobs' = addUrl(jobs, captures, u, 0, NoUrl, priority, now)
    /\ clock' = IF jobs' # jobs THEN now ELSE clock
    /\ ret' = [url |-> u, job |-> IF jobs' # jobs THEN Len(jobs') ELSE 0]
    /\ UNCHANGED <<captures, visited, poolQ, running, paused, isProcessing, pc,
                   maxUrls, maxDepth, concurrency, released, probe, robots, urlsCrawled, stats, lateSettled>>

\* A crawl without the maxUrls option, at the largest depth.
InitQueue == Init /\ maxUrls = 0 /\ maxDepth = MaxDepth

NextQueue ==
    \/ \E u \in DirectUrls, priority \in Priorities : AddUrlDirect(u, priority, clock + 1)
    \/ Process
    \/ Wake100
    \/ Wake1000
    \/ \E k \in DOMAIN running : HandlerCrawl(k)
    \/ \E k \in DOMAIN running : HandlerSkipped(k)
    \/ \E k \in DOMAIN running : HandlerFailed(k)
    \/ \E k \in DOMAIN running : HandlerCaptured(k)

SpecQueue == InitQueue /\ [][NextQueue]_vars

\* The crawl command called with a seed of a blocked domain.
NextPolicy ==
    \/ \E u \in PolicySeeds, now \in {clock, clock + 1} : AddSeed(u, now)
    \/ Process
    \/ Wake100
    \/ Wake1000
    \/ \E k \in DOMAIN running : HandlerCrawl(k)
    \/ \E k \in DOMAIN running : HandlerSkipped(k)
    \/ \E k \in DOMAIN running : HandlerFailed(k)
    \/ \E k \in DOMAIN running : HandlerCaptured(k)

SpecPolicy == InitQueue /\ [][NextPolicy]_vars

\* The crawl command called with two seeds of one domain whose pages link
\* to different pages of that domain.
NextCap ==
    \/ \E u \in CapSeeds, now \in {clock, clock + 1} : AddSeed(u, now)
    \/ Process
    \/ Wake100
    \/ Wake1000
    \/ \E k \in DOMAIN running : HandlerCrawl(k)
    \/ \E k \in DOMAIN running : HandlerSkipped(k)
    \/ \E k \in DOMAIN running : HandlerFailed(k)
    \/ \E k \in DOMAIN running : HandlerCaptured(k)

SpecCap == InitQueue /\ [][NextCap]_vars

\* Venom.crawlSingle(u) called before the crawl, with no other call in
\* flight: crawlUrl marks the URL visited, and unless robots.txt disallows
\* it the capture is counted and saved under its normalized URL.  The caller
\* crawls a page once.
CrawlSingle(u) ==
    /\ pc = "idle"
    /\ normalizeUrl(u) \notin visited
    /\ visited' = visited \cup {normalizeUrl(u)}
    /\ captures' = IF u \in Disallowed THEN captures ELSE captures \cup {normalizeUrl(u)}
    /\ stats' = IF u \in Disallowed THEN stats ELSE [stats EXCEPT !.urlsCrawled = @ + 1]
    /\ UNCHANGED <<jobs, poolQ, running, paused, isProcessing, pc, maxUrls, maxDepth, concurrency, released,
                   probe, robots, urlsCrawled, clock, ret, lateSettled>>

\* crawlSingle on some URLs, then the crawl command's addSeeds and crawl on
\* the same Venom object.
NextSingle ==
    \/ \E u \in SeedUrls \cup Disallowed : CrawlSingle(u)
    \/ \E u \in SeedUrls, now \in {clock, clock + 1} : AddSeed(u, now)
    \/ Process
    \/ Wake100
    \/ Wake1000
    \/ \E k \in DOMAIN running : HandlerCrawl(k)
    \/ \E k \in DOMAIN running : HandlerSkipped(k)
    \/ \E k \in DOMAIN running : HandlerFailed(k)
    \/ \E k \in DOMAIN running : HandlerCaptured(k)

SpecSingle == InitQueue /\ [][NextSingle]_vars

(***************************************************************************)
(* Crawler.shouldCrawl called on its own, on a crawler whose visited set   *)
(* was filled through markVisited, under a configuration drawn in the     *)
(* initial state.                                                          *)
(***************************************************************************)
DomainLists == {<<>>, <<"a.com">>, <<"ads.a.com">>, <<"b.org">>, <<"b.org", "ads.a.com">>}
ShouldCrawlInputs == Urls \cup {PFtp, RootFrag, PXTrack}

InitShould ==
    /\ jobs = <<>>
    /\ captures = {}
    /\ visited \in SUBSET {Root, PX}
    /\ poolQ = <<>>
    /\ running = <<>>
    /\ paused = TRUE
    /\ isProcessing = FALSE
    /\ pc = "idle"
    /\ maxUrls = 0
    /\ maxDepth = MaxDepth
    /\ released = "none"
    /\ concurrency = Concurrency
    /\ robots = NoRobots
    /\ \E b \in DomainLists, a \in DomainLists :
          probe = [called |-> FALSE, blocked |-> b, allowed |-> a,
                   url |-> NoUrl, result |-> FALSE]
    /\ urlsCrawled = 0
    /\ stats = [urlsDiscovered |-> 0, urlsCrawled |-> 0, urlsFailed |-> 0, urlsSkipped |-> 0,
               captionsGenerated |-> 0]
    /\ clock = 0
    /\ ret = [url |-> NoUrl, job |-> 0]
    /\ lateSettled = FALSE

ShouldCrawlCall(u) ==
    /\ probe' = [probe EXCEPT !.called = TRUE, !.url = u,
                              !.result = shouldCrawlWith(visited, u, probe.blocked,
                                                         probe.allowed)]
    /\ UNCHANGED <<jobs, captures, visited, poolQ, running, paused, isProcessing, pc,
                   maxUrls, maxDepth, concurrency, released, robots, urlsCrawled, stats, clock, ret, lateSettled>>

NextShould == \E u \in ShouldCrawlInputs : ShouldCrawlCall(u)

SpecShould == InitShould /\ [][NextShould]_vars

(***************************************************************************)
(* Crawler.normalizeUrl called on its own on two URLs.                     *)
(***************************************************************************)
\* The URLs https://a.com/ and https://a.com/x with and without a trailing
\* slash, a query parameter, a tracking parameter and a fragment.
NormalizeInputs ==
    {u \in {MkUrl("https:", "a.com", p, sl, q, t, f) :
                p \in {<<>>, <<"x">>}, sl \in BOOLEAN, q \in BOOLEAN, t \in BOOLEAN,
                f \in BOOLEAN} :
        u.path # <<>> \/ ~u.slash}

\* The state of a Venom object on which nothing was called, apart from the
\* call under test, which is recorded in probe.
Untouched ==
    /\ jobs = <<>>
    /\ captures = {}
    /\ visited = {}
    /\ poolQ = <<>>
    /\ running = <<>>
    /\ paused = TRUE
    /\ isProcessing = FALSE
    /\ pc = "idle"
    /\ maxUrls = 0
    /\ maxDepth = MaxDepth
    /\ released = "none"
    /\ concurrency = Concurrency
    /\ robots = NoRobots
    /\ urlsCrawled = 0
    /\ stats = [urlsDiscovered |-> 0, urlsCrawled |-> 0, urlsFailed |-> 0, urlsSkipped |-> 0,
               captionsGenerated |-> 0]
    /\ clock = 0
    /\ ret = [url |-> NoUrl, job |-> 0]
    /\ lateSettled = FALSE

ProbeOnly ==
    UNCHANGED <<jobs, captures, visited, poolQ, running, paused, isProcessing, pc,
                maxUrls, maxDepth, concurrency, released, robots, urlsCrawled, stats, clock, ret, lateSettled>>

InitNormalize ==
    /\ Untouched
    /\ probe = [called |-> FALSE, a |-> NoUrl, b |-> NoUrl, ra |-> NoUrl, rb |-> NoUrl]

NormalizeCall(u, v) ==
    /\ probe' = [called |-> TRUE, a |-> u, b |-> v,
                 ra |-> normalizeUrl(u), rb |-> normalizeUrl(v)]
    /\ ProbeOnly

NextNormalize == \E u \in NormalizeInputs, v \in NormalizeInputs : NormalizeCall(u, v)

SpecNormalize == InitNormalize /\ [][NextNormalize]_vars

(***************************************************************************)
(* The configuration of the crawl command: loadConfig, then the overrides  *)
(* from the command line, for the options maxDepth, concurrency, rateLimit.*)
(***************************************************************************)
OptionNames == {"maxDepth", "concurrency", "rateLimit"}

DEFAULT_CRAWLER_CONFIG == [maxDepth |-> 2, rateLimit |-> 1000, concurrency |-> 3]

\* The default values declared with the options -d, -c and -r.
OptionDefaults == [maxDepth |-> "2", concurrency |-> "3", rateLimit |-> "1000"]

\* What the config file holds for an option: <<>> when the key is absent.
FileEntries == {<<>>, <<1>>, <<5>>}

\* What the command line holds for an option: "" when the flag is not given.
FlagTexts == {"", "1", "4"}

\* parseInt(s, 10) on the texts that occur.
parseInt(s) ==
    CASE s = "1" -> 1
      [] s = "2" -> 2
      [] s = "3" -> 3
      [] s = "4" -> 4
      [] s = "1000" -> 1000

\* mergeConfig for the crawler section: {...defaults.crawler, ...partial.crawler}
mergeConfig(partial, defaults) ==
    [o \in OptionNames |-> IF partial[o] = <<>> THEN defaults[o] ELSE partial[o][1]]

\* loadConfig; without a file it returns the defaults, as merging an empty file does.
loadConfig(file) == mergeConfig(file, DEFAULT_CRAWLER_CONFIG)

\* The options object commander hands to the action: the text of the flag,
\* or the option's declared default when the flag is not given.
options(flags) == [o \in OptionNames |-> IF flags[o] = "" THEN OptionDefaults[o] ELSE flags[o]]

\* `if (options.x) config.crawler.x = parseInt(options.x, 10)` for the three options.
override(config, opts) ==
    [o \in OptionNames |-> IF opts[o] # "" THEN parseInt(opts[o]) ELSE config[o]]

InitConfig ==
    /\ Untouched
    /\ \E file \in [OptionNames -> FileEntries], flags \in [OptionNames -> FlagTexts] :
          probe = [stage |-> "start", file |-> file, flags |-> flags,
                   config |-> DEFAULT_CRAWLER_CONFIG]

\* `const config = loadConfig(options.config)`
LoadConfig ==
    /\ probe.stage = "start"
    /\ probe' = [probe EXCEPT !.stage = "loaded", !.config = loadConfig(probe.file)]
    /\ ProbeOnly

\* The overrides of the crawl command, after which the configuration is
\* validated and handed to Venom.
CrawlOverrides ==
    /\ probe.stage = "loaded"
    /\ probe' = [probe EXCEPT !.stage = "effective",
                              !.config = override(probe.config, options(probe.flags))]
    /\ ProbeOnly

NextConfig == LoadConfig \/ CrawlOverrides

SpecConfig == InitConfig /\ [][NextConfig]_vars

(***************************************************************************)
(* One handler invocation seen for its timing: the rate-limit delay, the   *)
(* robots check of crawlUrl, the page load.  Delays are in milliseconds,   *)
(* the Crawl-delay of robots.txt in seconds.                               *)
(***************************************************************************)
RateLimits == {0, 500, 1000, 2000, 10000}    \* config.crawler.rateLimit
CrawlDelays == {0, 1, 5}                     \* Crawl-delay of robots.txt, 0: none declared

\* checkRobotsTxt for a robots.txt that declares this crawl delay and
\* disallows the URL or not.
robotsTxtResult(declared, disallow) == [isAllowed |-> ~disallow, crawlDelay |-> declared]

\* Crawler.checkRobots: the result of checkRobotsTxt is reduced to isAllowed.
checkRobots(respectRobotsTxt, result) ==
    IF ~respectRobotsTxt THEN TRUE ELSE result.isAllowed

InitDelay ==
    /\ Untouched
    /\ \E r \in RateLimits, d \in CrawlDelays, dis \in BOOLEAN, resp \in BOOLEAN :
          probe = [stage |-> "start", rateLimit |-> r, respectRobotsTxt |-> resp,
                   declared |-> d, disallow |-> dis, waited |-> 0]

\* `await this.delay(this.config.crawler.rateLimit)` of the handler.
HandlerDelay ==
    /\ probe.stage = "start"
    /\ probe' = [probe EXCEPT !.stage = "delayed", !.waited = probe.rateLimit]
    /\ ProbeOnly

\* crawlUrl up to the page load: `await this.checkRobots(url)`, and null
\* for a URL that is not allowed.
CrawlRobotsCheck ==
    /\ probe.stage = "delayed"
    /\ probe' = [probe EXCEPT !.stage =
                    IF checkRobots(probe.respectRobotsTxt,
                                   robotsTxtResult(probe.declared, probe.disallow))
                    THEN "loading" ELSE "skipped"]
    /\ ProbeOnly

\* page.goto has fetched the URL.
CrawlPageLoad ==
    /\ probe.stage = "loading"
    /\ probe' = [probe EXCEPT !.stage = "fetched"]
    /\ ProbeOnly

NextDelay == HandlerDelay \/ CrawlRobotsCheck \/ CrawlPageLoad

SpecDelay == InitDelay /\ [][NextDelay]_vars

(***************************************************************************)
(* checkRobotsTxt called MaxChecks times, the calls overlapping at will.   *)
(***************************************************************************)
RobotsOnly ==
    UNCHANGED <<jobs, captures, visited, poolQ, running, paused, isProcessing, pc,
                maxUrls, maxDepth, concurrency, released, probe, urlsCrawled, stats, clock, ret, lateSettled>>

\* checkRobotsTxt up to the first await: a cache hit returns the cached
\* parser's answer, a miss issues the fetch.
CheckStart(c, d) ==
    /\ robots.calls[c].phase = "idle"
    /\ robots' =
          IF robots.cache[d] # NoRules
          THEN [robots EXCEPT !.calls[c] =
                   [phase |-> "done", domain |-> d, outcome |-> "hit",
                    result |-> checkResult(robots.cache[d])]]
          ELSE [robots EXCEPT !.calls[c] = [IdleCall EXCEPT !.phase = "fetching",
                                                             !.domain = d],
                              !.fetches[d] = @ + 1]
    /\ RobotsOnly

\* The fetch of call c answered ok with this body.
FetchOk(c, body) ==
    /\ robots.calls[c].phase = "fetching"
    /\ LET d == robots.calls[c].domain
       IN  robots' = [robots EXCEPT
               !.cache = onOk(@, d, body),
               !.calls[c] = [phase |-> "done", domain |-> d, outcome |-> "ok",
                             result |-> checkResult(body)]]
    /\ RobotsOnly

\* The fetch of call c answered with a status that is not ok (404), or the
\* fetch failed or timed out.
FetchNotOk(c, outcome) ==
    /\ robots.calls[c].phase = "fetching"
    /\ LET d == robots.calls[c].domain
       IN  robots' = [robots EXCEPT
               !.cache = onNotOk(@, d),
               !.calls[c] = [phase |-> "done", domain |-> d, outcome |-> outcome,
                             result |-> checkResult(NoRules)]]
    /\ RobotsOnly

\* clearRobotsCache
ClearCache ==
    /\ robots' = [robots EXCEPT !.cache = [d \in RobotDomains |-> NoRules]]
    /\ RobotsOnly

NextRobots ==
    \/ \E c \in 1..MaxChecks, d \in RobotDomains : CheckStart(c, d)
    \/ \E c \in 1..MaxChecks, body \in Bodies : FetchOk(c, body)
    \/ \E c \in 1..MaxChecks, outcome \in {"status", "error"} : FetchNotOk(c, outcome)
    \/ ClearCache

SpecRobots == InitQueue /\ [][NextRobots]_vars

(***************************************************************************)
(* Venom.close: called by the crawl command once crawl has returned, and   *)
(* by its SIGINT/SIGTERM handler whenever a signal arrives.  It awaits     *)
(* Crawler.close (the browser context, then the browser), then closes the  *)
(* database; the command then ends the process.                            *)
(***************************************************************************)
\* The process has not been ended by the command.
Alive == released # "all"

ShutdownOnly ==
    UNCHANGED <<jobs, captures, visited, poolQ, running, paused, isProcessing, pc,
                maxUrls, maxDepth, concurrency, probe, robots, urlsCrawled, stats, clock, ret, lateSettled>>

\* `await venom.close()` of the crawl command after crawl has returned, up
\* to the first await of Crawler.close.
CloseAfterCrawl ==
    /\ pc = "returned"
    /\ released = "none"
    /\ released' = "browser"
    /\ ShutdownOnly

\* The shutdown handler of the crawl command on a signal that arrives
\* before crawl has returned: venom.close() up to the first await of
\* Crawler.close.  Neither JobQueue.stop nor the pool is consulted.
ShutdownSignal ==
    /\ pc # "returned"
    /\ released = "none"
    /\ released' = "browser"
    /\ ShutdownOnly

\* Crawler.close has resolved: database.close(), and the command ends the
\* process.
CloseFinish ==
    /\ released = "browser"
    /\ released' = "all"
    /\ ShutdownOnly

\* The rate-limit delay of running[k] has elapsed after Crawler.close has
\* set the context to null: crawlUrl throws before it marks the URL visited.
HandlerRefused(k) ==
    /\ k \in DOMAIN running
    /\ running[k].phase = "delay"
    /\ released = "browser"
    /\ stats' = [stats EXCEPT !.urlsFailed = @ + 1]
    /\ Commit(RunMicrotasks(Settle(Machine, k, FALSE, urlsCrawled), urlsCrawled))
    /\ lateSettled' = (lateSettled \/ Stopped)
    /\ UNCHANGED <<captures, visited, maxUrls, maxDepth, concurrency, released, probe, robots, urlsCrawled,
                   clock, ret>>

\* A page operation of running[k] was rejected because the browser context
\* is closed: crawlUrl throws, whatever the page.
HandlerAborted(k) ==
    /\ k \in DOMAIN running
    /\ running[k].phase = "fetch"
    /\ released = "browser"
    /\ stats' = [stats EXCEPT !.urlsFailed = @ + 1]
    /\ Commit(RunMicrotasks(Settle(Machine, k, FALSE, urlsCrawled), urlsCrawled))
    /\ lateSettled' = (lateSettled \/ Stopped)
    /\ UNCHANGED <<captures, visited, maxUrls, maxDepth, concurrency, released, probe, robots, urlsCrawled,
                   clock, ret>>

NextShutdown ==
    \/ \E u \in SeedUrls, now \in {clock, clock + 1} : Alive /\ AddSeed(u, now)
    \/ Alive /\ Process
    \/ Alive /\ Wake100
    \/ Alive /\ Wake1000
    \/ \E k \in DOMAIN running : Alive /\ HandlerCrawl(k)
    \/ \E k \in DOMAIN running : Alive /\ HandlerSkipped(k)
    \/ \E k \in DOMAIN running : Alive /\ HandlerFailed(k)
    \/ \E k \in DOMAIN running : Alive /\ HandlerCaptured(k)
    \/ \E k \in DOMAIN running : HandlerRefused(k)
    \/ \E k \in DOMAIN running : HandlerAborted(k)
    \/ CloseAfterCrawl
    \/ ShutdownSignal
    \/ CloseFinish

SpecShutdown == InitQueue /\ [][NextShutdown]_vars

(***************************************************************************)
(* The crawl with the maxUrls option given, for every concurrency up to    *)
(* Concurrency, and the crawl under the scheduling of the event loop: the  *)
(* timer JobQueue.process is waiting on fires.  That a handler in flight   *)
(* terminates is a hypothesis of the properties, not of the scheduling.    *)
(***************************************************************************)
InitLimit == (\E c \in 1..Concurrency : InitWith(c)) /\ maxUrls >= 1 /\ maxDepth = MaxDepth

\* The seeds of the limited crawl: with the limit reached after the first
\* capture, only a seed can be a page that robots.txt disallows.
LimitSeeds == {Root, PXs, PY}

NextLimit ==
    \/ \E u \in LimitSeeds, now \in {clock, clock + 1} : AddSeed(u, now)
    \/ Process
    \/ Wake100
    \/ Wake1000
    \/ \E k \in DOMAIN running : HandlerCrawl(k)
    \/ \E k \in DOMAIN running : HandlerSkipped(k)
    \/ \E k \in DOMAIN running : HandlerFailed(k)
    \/ \E k \in DOMAIN running : HandlerCaptured(k)

SpecLimit == InitLimit /\ [][NextLimit]_vars

SpecLimitFair == InitLimit /\ [][NextLimit]_vars /\ WF_vars(Wake100) /\ WF_vars(Wake1000)

SpecFair == InitQueue /\ [][Next]_vars /\ WF_vars(Wake100) /\ WF_vars(Wake1000)

(***************************************************************************)
(* JobQueue.process driven by a caller of the JobQueue API with a handler  *)
(* and a completion callback of its own: the handler suspends and then     *)
(* returns or throws, the callback returns or throws.  The task wrapper    *)
(* has no await between the handler's return and the callback's, so the    *)
(* state between the status write and the callback is one in which nothing *)
(* else runs.                                                              *)
(***************************************************************************)
\* No task wrapper is between its status write and the return of onComplete.
Quiet == \A k \in DOMAIN running : running[k].phase # "callback"

\* The handler of running[k] returned: updateJobStatus(job.id, 'completed'),
\* and the wrapper calls onComplete.
TaskReturned(k) ==
    /\ Quiet
    /\ k \in DOMAIN running
    /\ running[k].phase = "delay"
    /\ jobs' = updateJobStatus(jobs, running[k].job, "completed")
    /\ running' = [running EXCEPT ![k].phase = "callback"]
    /\ UNCHANGED <<captures, visited, poolQ, paused, isProcessing, pc, maxUrls, maxDepth, concurrency,
                   released, probe, robots, urlsCrawled, stats, clock, ret, lateSettled>>

\* The handler of running[k] threw: the catch block of the wrapper.
TaskThrew(k) ==
    /\ Quiet
    /\ k \in DOMAIN running
    /\ running[k].phase = "delay"
    /\ Commit(RunMicrotasks(Settle(Machine, k, FALSE, urlsCrawled), urlsCrawled))
    /\ UNCHANGED <<captures, visited, maxUrls, maxDepth, concurrency, released, probe, robots,
                   urlsCrawled, stats, clock, ret, lateSettled>>

\* onComplete returned for running[k]: the task settles.
CallbackReturned(k) ==
    /\ k \in DOMAIN running
    /\ running[k].phase = "callback"
    /\ Commit(RunMicrotasks(Settle(Machine, k, TRUE, urlsCrawled), urlsCrawled))
    /\ UNCHANGED <<captures, visited, maxUrls, maxDepth, concurrency, released, probe, robots,
                   urlsCrawled, stats, clock, ret, lateSettled>>

\* onComplete threw for running[k]: the call is inside the try block, so the
\* catch block of the wrapper runs as for a failure of the handler.
CallbackThrew(k) ==
    /\ k \in DOMAIN running
    /\ running[k].phase = "callback"
    /\ Commit(RunMicrotasks(Settle(Machine, k, FALSE, urlsCrawled), urlsCrawled))
    /\ UNCHANGED <<captures, visited, maxUrls, maxDepth, concurrency, released, probe, robots,
                   urlsCrawled, stats, clock, ret, lateSettled>>

NextCallback ==
    \/ \E u \in DirectUrls, now \in {clock, clock + 1} : AddUrlDirect(u, "normal", now)
    \/ Process
    \/ Quiet /\ Wake100
    \/ Quiet /\ Wake1000
    \/ \E k \in DOMAIN running : TaskReturned(k)
    \/ \E k \in DOMAIN running : TaskThrew(k)
    \/ \E k \in DOMAIN running : CallbackReturned(k)
    \/ \E k \in DOMAIN running : CallbackThrew(k)

SpecCallback == InitQueue /\ [][NextCallback]_vars

(***************************************************************************)
(* The crawl of a Frontier that a caller of the JobQueue API has filled    *)
(* with more URLs than one batch, for every concurrency up to Concurrency. *)
(***************************************************************************)
FrontierUrls == {PX, PY, POut, PW}

InitBatches == (\E c \in 1..Concurrency : InitWith(c)) /\ maxUrls = 0 /\ maxDepth = 0

NextBatches ==
    \/ \E u \in FrontierUrls : AddUrlDirect(u, "normal", clock + 1)
    \/ Process
    \/ Wake100
    \/ Wake1000
    \/ \E k \in DOMAIN running : HandlerCrawl(k)
    \/ \E k \in DOMAIN running : HandlerSkipped(k)
    \/ \E k \in DOMAIN running : HandlerFailed(k)
    \/ \E k \in DOMAIN running : HandlerCaptured(k)

SpecBatches == InitBatches /\ [][NextBatches]_vars

(***************************************************************************)
(* Properties.                                                             *)
(***************************************************************************)
Tasks == poolQ \o running

\* The number of tasks, queued or running, of job i.
Attempts(i) == Cardinality({k \in DOMAIN Tasks : Tasks[k].job = i})

WithUrl(js, u) == {i \in DOMAIN js : js[i].url = u}

\* The jobs whose handler this step started: they have a running task that
\* the state before the step did not have running.
Started ==
    {running'[k].job : k \in {l \in DOMAIN running' :
        ~\E o \in DOMAIN running :
            /\ running[o].job = running'[l].job
            /\ running[o].retryCount = running'[l].retryCount}}

\* The jobs this step pulled from the Frontier: pending before, not after.
Pulled ==
    {i \in DOMAIN jobs : jobs[i].status = "pending" /\ jobs'[i].status # "pending"}

\* The positions of running' that hold a task the state before did not run.
NewIdx ==
    {l \in DOMAIN running' :
        ~\E o \in DOMAIN running :
            /\ running[o].job = running'[l].job
            /\ running[o].retryCount = running'[l].retryCount}

JobsOf(q) == [k \in DOMAIN q |-> q[k].job]

Pos(s, j) == CHOOSE k \in DOMAIN s : s[k] = j

\* The orders in which the jobs of S can be listed.
Perms(S) ==
    {s \in [1..Cardinality(S) -> S] :
        \A a, b \in 1..Cardinality(S) : s[a] = s[b] => a = b}

\* C1: the Frontier never holds two Jobs with the same URL string; a row is
\* never rewritten to another URL, a Job that exists for a URL stays the only
\* one, every new Job is pending with retry count 0, and addUrl returns null
\* only for a URL that the store already holds.
C1_Inv ==
    /\ \A u \in Urls : Cardinality(WithUrl(jobs, u)) <= 1
    /\ ret.url # NoUrl =>
          IF ret.job = 0
          THEN WithUrl(jobs, ret.url) # {} \/ ret.url \in captures
          ELSE ret.job \in DOMAIN jobs /\ jobs[ret.job].url = ret.url

C1_Step ==
    /\ Len(jobs') >= Len(jobs)
    /\ \A i \in DOMAIN jobs : jobs'[i].url = jobs[i].url
    /\ \A i \in DOMAIN jobs' \ DOMAIN jobs :
          /\ jobs'[i].status = "pending"
          /\ jobs'[i].retryCount = 0
          /\ WithUrl(jobs, jobs'[i].url) = {}
          /\ jobs'[i].url \notin captures

\* C1: the invariant and the step property of addUrl together.
C1_AddUrlOnce == []C1_Inv /\ [][C1_Step]_vars

\* C1 witness: a later addUrl of a URL that has a Job returned null.
C1_Witness == ret.url # NoUrl /\ ret.job = 0 /\ WithUrl(jobs, ret.url) # {}

\* C2: no two Jobs of the Frontier have the same normalized URL.
C2_NormalizedUnique ==
    \A i, j \in DOMAIN jobs :
        normalizeUrl(jobs[i].url) = normalizeUrl(jobs[j].url) => i = j

\* C3: each handler failure adds one to the Job's retry count; the failures
\* numbered 1..MaxRetries requeue the Job as pending and failure number
\* MaxRetries + 1 sets it to failed; a failed Job never changes again and has
\* no task in the worker pool.
C3_Inv ==
    \A i \in DOMAIN jobs :
        /\ jobs[i].retryCount <= MaxRetries + 1
        /\ jobs[i].status = "failed" =>
              jobs[i].retryCount = MaxRetries + 1 /\ Attempts(i) = 0

C3_Step ==
    \A i \in DOMAIN jobs :
        /\ jobs[i].status = "failed" => jobs'[i] = jobs[i]
        /\ jobs'[i].retryCount # jobs[i].retryCount =>
              /\ jobs[i].status = "crawling"
              /\ jobs'[i].retryCount = jobs[i].retryCount + 1
              /\ jobs'[i].status =
                    IF jobs'[i].retryCount <= MaxRetries THEN "pending" ELSE "failed"
        /\ jobs[i].status = "crawling" /\ jobs'[i].status \in {"pending", "failed"} =>
              jobs'[i].retryCount = jobs[i].retryCount + 1

\* C3: the invariant and the step property of the retry policy together.
C3_RetryThenFail == []C3_Inv /\ [][C3_Step]_vars

\* C3 witness: a Job has been set to failed after MaxRetries requeues.
C3_Witness ==
    \E i \in DOMAIN jobs :
        jobs[i].status = "failed" /\ jobs[i].retryCount = MaxRetries + 1

\* C4: at most Concurrency handler invocations are started and not finished.
C4_BoundedConcurrency == Len(running) <= Concurrency

\* C4 witness: the pool is full and a task waits, with children enqueued by a handler.
C4_Witness ==
    /\ Len(running) = Concurrency
    /\ poolQ # <<>>
    /\ \E i \in DOMAIN jobs : jobs[i].parentUrl # NoUrl

\* C5: a Job has at most one task in the worker pool, and while it has one
\* its status is crawling, so no poll can pull it again.
C5_OneAttempt ==
    \A i \in DOMAIN jobs :
        /\ Attempts(i) <= 1
        /\ Attempts(i) = 1 => jobs[i].status = "crawling"

\* C5 witness: a requeued Job is in its second attempt.
C5_Witness ==
    \E k \in DOMAIN running :
        running[k].retryCount >= 1 /\ jobs[running[k].job].status = "crawling"

\* C6: when stop() was not called, process returns only from the second
\* check after the 1000 ms wait, with no pending Job and an empty pool.
C6_Inv ==
    pc = "returned" /\ ~paused =>
        /\ \A i \in DOMAIN jobs : jobs[i].status # "pending"
        /\ poolQ = <<>>
        /\ running = <<>>

C6_Step == pc # "returned" /\ pc' = "returned" /\ ~paused' => pc = "wait1000"

\* C6: process returns without stop() only when done, and only from the second check.
C6_ReturnsWhenDone == []C6_Inv /\ [][C6_Step]_vars

\* C6 witness: process has returned without stop() after children were crawled.
C6_Witness ==
    /\ pc = "returned"
    /\ ~paused
    /\ \E i \in DOMAIN jobs : jobs[i].parentUrl # NoUrl /\ jobs[i].status = "completed"

\* C7: once stop() has been called no task starts and no Job is pulled, and
\* a handler that is running leaves the pool only by its own transition of
\* its Job from crawling to completed, pending or failed.
C7_Step ==
    Stopped =>
        /\ poolQ' = poolQ
        /\ Started = {}
        /\ Pulled = {}
        /\ \A k \in DOMAIN running :
              \/ \E l \in DOMAIN running' : running'[l].job = running[k].job
              \/ /\ jobs[running[k].job].status = "crawling"
                 /\ jobs'[running[k].job].status \in {"completed", "pending", "failed"}

\* C7: every step taken after stop() dispatches nothing and cancels nothing.
C7_StopHaltsDispatch == [][C7_Step]_vars

\* C7 witness: a handler finished after stop() while a task stays queued.
C7_Witness == Stopped /\ lateSettled /\ poolQ # <<>>

C9_OrigStep ==
    \A n \in Started : \A i \in DOMAIN jobs' :
        jobs'[i].status = "pending" =>
            Rank(jobs'[i].priority) >= Rank(jobs'[n].priority)

\* C9 as stated, for every step.
C9_StartsByPriority == [][C9_OrigStep]_vars

\* C9 amended: priority orders the Jobs that are pending at the same poll. A
\* poll pulls a pending Job only with every pending Job of higher priority,
\* submits the pulled Jobs by priority behind the tasks already queued, and
\* the pool starts tasks in the order of submission; a Job that becomes
\* pending later waits for the next poll.
C9_PollStep ==
    /\ \A i \in Pulled : \A j \in DOMAIN jobs :
          jobs[j].status = "pending" /\ Rank(jobs[j].priority) < Rank(jobs[i].priority)
              => j \in Pulled
    /\ \E s \in Perms(Pulled) :
          /\ \A a, b \in DOMAIN s :
                a < b => Rank(jobs[s[a]].priority) <= Rank(jobs[s[b]].priority)
          /\ LET all == JobsOf(poolQ) \o s
             IN  \E n \in 0..Len(all) :
                     /\ JobsOf(poolQ') = SubSeq(all, n + 1, Len(all))
                     /\ \A l \in NewIdx : \E a \in 1..n : all[a] = running'[l].job
                     /\ \A l, m \in NewIdx :
                           l < m => Pos(all, running'[l].job) < Pos(all, running'[m].job)

\* C9 amended, for every step.
C9_PollOrder == [][C9_PollStep]_vars

\* C9 witness: Jobs added as low, high, normal; the handlers of high and
\* normal have started in that order and low has no handler started.
C9_Witness ==
    /\ Len(jobs) = 3
    /\ jobs[1].priority = "low"
    /\ jobs[2].priority = "high"
    /\ jobs[3].priority = "normal"
    /\ Len(running) = 2
    /\ running[1].job = 2
    /\ running[2].job = 3
    /\ jobs[1].status = "pending"

\* C10: every Job has a depth in 0..maxDepth; a Job without parent has depth
\* 0 and a Job found on a page has the depth of that page's Job plus one.
C10_Depth ==
    \A i \in DOMAIN jobs :
        /\ 0 <= jobs[i].depth
        /\ jobs[i].depth <= maxDepth
        /\ IF jobs[i].parentUrl = NoUrl THEN jobs[i].depth = 0
           ELSE \E p \in DOMAIN jobs :
                    /\ jobs[p].url = jobs[i].parentUrl
                    /\ jobs[i].depth = jobs[p].depth + 1

\* C10 witness: a Job at the maximal depth whose page links onward was captured.
C10_Witness ==
    \E i \in DOMAIN jobs :
        /\ jobs[i].depth = maxDepth
        /\ jobs[i].parentUrl # NoUrl
        /\ jobs[i].status = "completed"
        /\ Anchors(jobs[i].url) # <<>>
        /\ normalizeUrl(jobs[i].url) \in captures

\* C11: a Job whose depth is maxDepth is the parent of no Job, and with
\* maxDepth = 0 the Frontier holds the seeds only.
C11_NoChildAtMaxDepth ==
    /\ \A i, p \in DOMAIN jobs :
          jobs[i].parentUrl = jobs[p].url => jobs[p].depth < maxDepth
    /\ maxDepth = 0 => \A i \in DOMAIN jobs : jobs[i].parentUrl = NoUrl

\* C11 witness: the crawl of the one seed, a page with internal links, has
\* ended at maxDepth = 0 with the seed's capture saved.
C11_Witness ==
    /\ maxDepth = 0
    /\ pc = "returned"
    /\ Len(jobs) = 1
    /\ jobs[1].status = "completed"
    /\ Filter(Anchors(jobs[1].url), jobs[1].url, {}) # <<>>
    /\ normalizeUrl(jobs[1].url) \in captures

\* The policy part of shouldCrawl: scheme, blocked and allowed domains.
Admissible(u) ==
    /\ u.scheme \in {"http:", "https:"}
    /\ ~\E k \in DOMAIN blockedDomains : Includes(getDomain(u), blockedDomains[k])
    /\ \/ Len(allowedDomains) = 0
       \/ \E k \in DOMAIN allowedDomains : Includes(getDomain(u), allowedDomains[k])

\* C12: every Job of the Frontier is for a URL that the policy admits.
C12_FrontierAdmissible == \A i \in DOMAIN jobs : Admissible(jobs[i].url)

\* Some entry of the list ds occurs in the hostname of u.
Matches(u, ds) == \E k \in DOMAIN ds : Includes(u.host, ds[k])

\* C13: shouldCrawl returns true exactly for a URL that is not visited in its
\* normalized form, has scheme http or https, matches no blocked entry and,
\* if the allow list is not empty, matches an allowed entry; a subdomain of
\* an allowed entry is admitted and a blocked match wins over an allowed one.
C13_Inv ==
    probe.called =>
        /\ probe.result =
              (/\ normalizeUrl(probe.url) \notin visited
               /\ probe.url.scheme \in {"http:", "https:"}
               /\ ~Matches(probe.url, probe.blocked)
               /\ (probe.allowed = <<>> \/ Matches(probe.url, probe.allowed)))
        /\ (Matches(probe.url, probe.blocked) /\ Matches(probe.url, probe.allowed))
              => ~probe.result
        /\ (/\ probe.url = PAds
            /\ probe.allowed = <<"a.com">>
            /\ probe.blocked \in {<<>>, <<"b.org">>})
              => probe.result

\* C13: the call changes neither the visited set nor the Frontier.
C13_Step == probe' # probe => visited' = visited /\ jobs' = jobs /\ captures' = captures

C13_ShouldCrawl == []C13_Inv /\ [][C13_Step]_vars

\* C13 witness: a URL of an allowed domain rejected for its blocked subdomain.
C13_Witness ==
    /\ probe.called
    /\ ~probe.result
    /\ probe.url = PAds
    /\ probe.allowed = <<"a.com">>
    /\ probe.blocked = <<"ads.a.com">>
    /\ normalizeUrl(probe.url) \notin visited

\* The calls of checkRobotsTxt whose fetch ended in this step.
Fetched == {c \in 1..MaxChecks : robots.calls[c].phase = "fetching"
                                 /\ robots'.calls[c].phase = "done"}

\* The calls of checkRobotsTxt made in this step.
Called == {c \in 1..MaxChecks : robots.calls[c].phase = "idle"
                                /\ robots'.calls[c].phase # "idle"}

\* C14: a check whose fetch ends with a status that is not ok, or fails,
\* answers isAllowed = true without sitemaps and leaves the cache as it was,
\* so the domain has no entry from it; a check of a domain without entry
\* issues a fetch.
C14_Step ==
    /\ \A c \in Fetched :
          robots'.calls[c].outcome \in {"status", "error"} =>
              /\ robots'.calls[c].result = [isAllowed |-> TRUE, sitemaps |-> <<>>]
              /\ robots'.cache = robots.cache
    /\ \A c \in Called :
          robots.cache[robots'.calls[c].domain] = NoRules =>
              /\ robots'.calls[c].phase = "fetching"
              /\ robots'.fetches[robots'.calls[c].domain] =
                     robots.fetches[robots'.calls[c].domain] + 1

C14_FailureNotCached == [][C14_Step]_vars

\* C14 witness: after a check of a domain ended with status 404 the domain has
\* no entry and the next check of it has issued a second fetch.
C14_Witness ==
    \E c, e \in 1..MaxChecks :
        /\ robots.calls[c].phase = "done"
        /\ robots.calls[c].outcome = "status"
        /\ robots.calls[c].result.isAllowed
        /\ robots.calls[e].phase = "fetching"
        /\ robots.calls[e].domain = robots.calls[c].domain
        /\ robots.cache[robots.calls[c].domain] = NoRules
        /\ robots.fetches[robots.calls[c].domain] = 2

\* C15: an entry of the cache is never replaced by other rules, only removed
\* by clearRobotsCache, and no fetch is issued for a domain that has an entry.
C15_Step ==
    \A d \in RobotDomains :
        robots.cache[d] # NoRules =>
            /\ robots'.cache[d] \in {robots.cache[d], NoRules}
            /\ robots'.fetches[d] = robots.fetches[d]

C15_CacheTerminal == [][C15_Step]_vars

\* The tasks whose handler got a null capture in this step: the robots check
\* of a disallowed URL was pending and the task has left the pool.
SkippedNow ==
    {k \in DOMAIN running :
        /\ running[k].phase = "fetch"
        /\ jobs[running[k].job].url \in Disallowed
        /\ ~\E l \in DOMAIN running' : running'[l].job = running[k].job}

\* C16: a null capture adds one to urlsSkipped and nothing to urlsFailed and
\* urlsCrawled, keeps the Job's retry count, saves no capture, creates no
\* Job and completes the Job; a completed Job never changes again and has
\* no task in the pool.
C16_Inv == \A i \in DOMAIN jobs : jobs[i].status = "completed" => Attempts(i) = 0

C16_Step ==
    /\ \A k \in SkippedNow :
          /\ stats' = [stats EXCEPT !.urlsSkipped = @ + 1]
          /\ urlsCrawled' = urlsCrawled
          /\ captures' = captures
          /\ Len(jobs') = Len(jobs)
          /\ jobs'[running[k].job] = [jobs[running[k].job] EXCEPT !.status = "completed"]
    /\ \A i \in DOMAIN jobs : jobs[i].status = "completed" => jobs'[i] = jobs[i]

\* C16: the invariant and the step property of a null capture together.
C16_NullCaptureSkipped == []C16_Inv /\ [][C16_Step]_vars

\* C16 witness: the crawl has ended with the disallowed page skipped.
C16_Witness ==
    /\ pc = "returned"
    /\ stats.urlsSkipped = 1
    /\ \E i \in DOMAIN jobs :
          /\ jobs[i].url \in Disallowed
          /\ jobs[i].status = "completed"
          /\ jobs[i].retryCount = 0
          /\ normalizeUrl(jobs[i].url) \notin captures

\* The URL limit of the crawl is reached: the next handler to start calls stop().
AtUrlLimit == maxUrls # 0 /\ urlsCrawled >= maxUrls

\* The tasks whose handler threw in this step.
ThrownNow ==
    {k \in DOMAIN running :
        /\ running[k].phase = "fetch"
        /\ stats'.urlsFailed = stats.urlsFailed + 1
        /\ ~\E l \in DOMAIN running' :
              running'[l].job = running[k].job
              /\ running'[l].retryCount = running[k].retryCount}

\* C17: a step in which a handler throws moves the failing Job from crawling
\* to pending or failed, changes no other Job except to start or finish it
\* as the pool does, drops no queued task, and leaves the polling loop where
\* it was and the pool unpaused (unless the URL limit makes the next handler
\* call stop()).
C17_Step ==
    \A k \in ThrownNow :
        /\ jobs[running[k].job].status = "crawling"
        /\ jobs'[running[k].job].status \in {"pending", "failed"}
        /\ \A i \in DOMAIN jobs :
              i # running[k].job =>
                  \/ jobs'[i] = jobs[i]
                  \/ AtUrlLimit /\ jobs[i].status = "crawling"
                                /\ jobs'[i] = [jobs[i] EXCEPT !.status = "completed"]
        /\ \A q \in DOMAIN poolQ :
              \/ \E l \in DOMAIN poolQ' : poolQ'[l].job = poolQ[q].job
              \/ \E l \in DOMAIN running' : running'[l].job = poolQ[q].job
              \/ AtUrlLimit
        /\ ~Stopped /\ ~AtUrlLimit =>
              pc' = pc /\ isProcessing' = isProcessing /\ paused' = paused

\* C17: after a handler has thrown, and unless stop() is called, the polling
\* loop waits on one of its timers with the pool unpaused whenever a Job is
\* pending, so that the next poll pulls it.
C17_Inv ==
    /\ stats.urlsFailed > 0
    /\ ~Stopped
    /\ \E i \in DOMAIN jobs : jobs[i].status = "pending"
    => pc \in {"wait100", "wait1000"} /\ isProcessing /\ ~paused

\* C17: the invariant and the step property of a throwing handler together.
C17_ExceptionContained == []C17_Inv /\ [][C17_Step]_vars

\* C17 witness: a handler has thrown, the scheduler is not stopped, and a
\* Job created after the failure is being crawled.
C17_Witness ==
    /\ stats.urlsFailed > 0
    /\ ~Stopped
    /\ pc \in {"wait100", "wait1000"}
    /\ \E k \in DOMAIN running : \E i \in DOMAIN jobs :
          /\ running[k].job # i
          /\ jobs[i].status \in {"pending", "failed"}
          /\ jobs[i].retryCount > 0
          /\ jobs[running[k].job].retryCount = 0

\* The tasks whose captioning call threw in this step.
CaptionThrewNow ==
    {k \in DOMAIN running :
        /\ running[k].phase = "caption"
        /\ jobs[running[k].job].url \in CaptionThrows
        /\ ~\E l \in DOMAIN running' : running'[l].job = running[k].job}

\* C18: when the captioning call throws, the Job is set to completed with
\* its retry count as it was, urlsFailed and captionsGenerated keep their
\* values, and every link that link discovery selects for the capture is in
\* the store afterwards.
C18_Step ==
    \A k \in CaptionThrewNow :
        LET j == running[k].job
        IN  /\ jobs'[j] = [jobs[j] EXCEPT !.status = "completed"]
            /\ stats'.urlsFailed = stats.urlsFailed
            /\ stats'.captionsGenerated = stats.captionsGenerated
            /\ \A n \in DOMAIN Discover(jobs[j], visited) :
                  urlExists(jobs', captures', Discover(jobs[j], visited)[n])
            /\ stats'.urlsDiscovered = stats.urlsDiscovered + Len(jobs') - Len(jobs)

C18_CaptionFailureIgnored == [][C18_Step]_vars

\* C18 witness: the capture of the seed was saved, its captioning threw, the
\* Job is completed and its links have become Jobs.
C18_Witness ==
    \E i, c \in DOMAIN jobs :
        /\ jobs[i].url \in CaptionThrows
        /\ jobs[i].status = "completed"
        /\ jobs[i].retryCount = 0
        /\ jobs[c].parentUrl = jobs[i].url
        /\ stats.urlsFailed = 0
        /\ stats.captionsGenerated = 0
        /\ stats.urlsCrawled = 1

\* The Jobs whose handler failure was recorded in this step.
FailedNow == {i \in DOMAIN jobs : jobs'[i].retryCount # jobs[i].retryCount}

\* C19 as stated: a failure adds one to the retry count, and the Job is
\* requeued as pending if the incremented count is below MaxRetries and set
\* to failed otherwise.
C19_OrigStep ==
    \A i \in FailedNow :
        /\ jobs'[i].retryCount = jobs[i].retryCount + 1
        /\ jobs'[i].status =
              IF jobs'[i].retryCount < MaxRetries THEN "pending" ELSE "failed"

C19_RequeueIfIncrementedBelowMax == [][C19_OrigStep]_vars

\* C19 amended: a failure adds one to the retry count, and the Job is requeued
\* as pending if the count before the increment is below MaxRetries and set
\* to failed otherwise.
C19_Step ==
    \A i \in FailedNow :
        /\ jobs[i].status = "crawling"
        /\ jobs'[i].retryCount = jobs[i].retryCount + 1
        /\ jobs'[i].status =
              IF jobs[i].retryCount < MaxRetries THEN "pending" ELSE "failed"

C19_RequeueIfPreviousBelowMax == [][C19_Step]_vars

\* C19 witness: a Job was requeued by the failure that brought its retry
\* count to MaxRetries.
C19_Witness ==
    \E i \in DOMAIN jobs :
        jobs[i].status = "pending" /\ jobs[i].retryCount = MaxRetries

\* C20 as stated: no stored retry count exceeds MaxRetries.
C20_RetryAtMostMax == \A i \in DOMAIN jobs : jobs[i].retryCount <= MaxRetries

\* C20 amended: the stored retry count of a Job that is not failed is at most
\* MaxRetries, and that of a failed Job is MaxRetries + 1.
C20_RetryBound ==
    \A i \in DOMAIN jobs :
        IF jobs[i].status = "failed"
        THEN jobs[i].retryCount = MaxRetries + 1
        ELSE jobs[i].retryCount <= MaxRetries

\* C20 witness: the crawl has ended with a Job failed at MaxRetries + 1 beside
\* a Job that never failed.
C20_Witness ==
    /\ pc = "returned"
    /\ \E i, j \in DOMAIN jobs :
          /\ jobs[i].status = "failed"
          /\ jobs[i].retryCount = MaxRetries + 1
          /\ jobs[j].status = "completed"
          /\ jobs[j].retryCount = 0

\* C21: Venom.close releases the browser and the database only when no
\* handler is in flight: while anything is released, no handler is running.
C21_CloseWhenDrained == released # "none" => running = <<>>

\* The URL limit is reached when this step ends: a handler that the step
\* starts reads a count of captured pages that is at least maxUrls.
LimitReachedAfter == maxUrls # 0 /\ urlsCrawled' >= maxUrls

\* The Jobs whose task this step took out of the pool's queue or, having
\* pulled them, did not leave queued: their handler was invoked.
Invoked ==
    {i \in {poolQ[q].job : q \in DOMAIN poolQ} \cup Pulled :
        ~\E l \in DOMAIN poolQ' : poolQ'[l].job = i}

\* C22: once the number of captured pages has reached maxUrls, a handler
\* that is invoked calls stop() and returns at once: it never reaches the
\* rate-limit delay, so its URL is not marked visited, no capture is saved
\* for it and no link is enqueued by it; the scheduler is stopped.
C22_Step ==
    LimitReachedAfter =>
        /\ NewIdx = {}
        /\ \A i \in Invoked :
              /\ ~\E l \in DOMAIN running' : running'[l].job = i
              /\ jobs'[i].retryCount = jobs[i].retryCount
              /\ visited' = visited
              /\ ~\E c \in DOMAIN jobs' : c \notin DOMAIN jobs /\ jobs'[c].parentUrl = jobs'[i].url
              /\ paused'
              /\ ~isProcessing'

C22_LimitStopsHandlers == [][C22_Step]_vars

\* C22 witness: with maxUrls = 1 one page was captured, the scheduler is
\* stopped, and a Job whose handler was invoked afterwards is finished with
\* its URL never visited and no capture saved for it.
C22_Witness ==
    /\ maxUrls = 1
    /\ urlsCrawled = 1
    /\ paused
    /\ ~isProcessing
    /\ \E i \in DOMAIN jobs :
          /\ jobs[i].status = "completed"
          /\ jobs[i].url \notin Disallowed
          /\ normalizeUrl(jobs[i].url) \notin visited
          /\ normalizeUrl(jobs[i].url) \notin captures

\* The Jobs created by addSeeds, and those created by link discovery.
IsSeed(job) == job.parentUrl = NoUrl

\* C23: a Job created by addSeeds has depth 0, priority high and no parent
\* URL; a Job created by link discovery has priority normal and the URL of
\* the Job of the captured page as parent URL; every result of the poll
\* lists the pending seeds before the pending children, and holds a child
\* only together with every pending seed.
C23_Inv ==
    /\ \A i \in DOMAIN jobs :
          IF IsSeed(jobs[i])
          THEN jobs[i].depth = 0 /\ jobs[i].priority = "high"
          ELSE /\ jobs[i].priority = "normal"
               /\ \E p \in DOMAIN jobs :
                     /\ jobs[p].url = jobs[i].parentUrl
                     /\ normalizeUrl(jobs[p].url) \in captures
    /\ \A r \in getPendingJobs(jobs, BatchSize) :
          /\ \A a, b \in DOMAIN r :
                IsSeed(jobs[r[a]]) /\ ~IsSeed(jobs[r[b]]) => a < b
          /\ (\E b \in DOMAIN r : ~IsSeed(jobs[r[b]])) =>
                \A i \in DOMAIN jobs :
                    jobs[i].status = "pending" /\ IsSeed(jobs[i]) =>
                        \E a \in DOMAIN r : r[a] = i

\* C23: a step that pulls a child pulls every pending seed.
C23_Step ==
    \A c \in Pulled :
        ~IsSeed(jobs[c]) =>
            \A i \in DOMAIN jobs :
                jobs[i].status = "pending" /\ IsSeed(jobs[i]) => i \in Pulled

C23_SeedsFirst == []C23_Inv /\ [][C23_Step]_vars

\* C23 witness: a seed that failed was pending together with two children;
\* the poll has pulled the seed again and one child, the other child waits.
C23_Witness ==
    /\ pc = "wait100"
    /\ \E i, c, d \in DOMAIN jobs :
          /\ IsSeed(jobs[i])
          /\ jobs[i].retryCount >= 1
          /\ jobs[i].status = "crawling"
          /\ ~IsSeed(jobs[c])
          /\ jobs[c].status = "crawling"
          /\ jobs[c].retryCount = 0
          /\ ~IsSeed(jobs[d])
          /\ jobs[d].status = "pending"
          /\ jobs[d].retryCount = 0
          /\ \E k, l \in DOMAIN Tasks :
                k < l /\ Tasks[k].job = i /\ Tasks[l].job = c

\* The Jobs that link discovery has enqueued for domain d.
DiscoveredFor(d) == {i \in DOMAIN jobs : ~IsSeed(jobs[i]) /\ getDomain(jobs[i].url) = d}

\* C24: over the whole run, link discovery enqueues at most MaxUrlsPerDomain
\* Jobs for one domain.
C24_DomainCap ==
    \A d \in {"a.com", "ads.a.com", "b.org"} :
        Cardinality(DiscoveredFor(d)) <= MaxUrlsPerDomain

\* C25: addUrl creates no Job for a URL whose canonical form has a stored
\* capture: every Job a step creates is for a URL whose normalized form was
\* in no capture before the step.
C25_Step ==
    \A i \in DOMAIN jobs' \ DOMAIN jobs : normalizeUrl(jobs'[i].url) \notin captures

C25_NoJobForCaptured == [][C25_Step]_vars

\* Two URLs that differ at most by the fragment, the tracking parameters
\* and the trailing slash of the path.
SameButFor(u, v) ==
    /\ u.scheme = v.scheme
    /\ u.host = v.host
    /\ u.path = v.path
    /\ u.query = v.query

\* C26: normalizeUrl returns the same canonical form for two URLs that differ
\* only by fragment, tracking parameters or trailing slash, with or without
\* another query parameter.
C26_SameCanonical ==
    probe.called /\ SameButFor(probe.a, probe.b) => probe.ra = probe.rb

\* C27: the effective value of maxDepth, concurrency and rateLimit is the
\* flag's value when the flag was given, otherwise the config file's value
\* when the file sets it, otherwise the built-in default.
C27_Precedence ==
    probe.stage = "effective" =>
        \A o \in OptionNames :
            probe.config[o] =
                IF probe.flags[o] # "" THEN parseInt(probe.flags[o])
                ELSE IF probe.file[o] # <<>> THEN probe.file[o][1]
                ELSE DEFAULT_CRAWLER_CONFIG[o]

\* C28: when robots.txt is respected and declares a crawl delay, the delay
\* applied before a URL is fetched is at least that crawl delay.
C28_CrawlDelayRespected ==
    /\ probe.stage \in {"loading", "fetched"}
    /\ probe.respectRobotsTxt
    /\ probe.declared > 0
    => probe.waited >= 1000 * probe.declared

\* C29: when the crawl has ended, urlsFailed is the number of Jobs whose
\* status is failed.
C29_FailedCount ==
    pc = "returned" =>
        stats.urlsFailed = Cardinality({i \in DOMAIN jobs : jobs[i].status = "failed"})

\* The tasks whose handler saved a capture and returned in this step.
CapturedNow ==
    {k \in DOMAIN running :
        /\ running[k].phase = "fetch"
        /\ urlsCrawled' = urlsCrawled + 1
        /\ ~\E l \in DOMAIN running' : running'[l].job = running[k].job}

\* C30: link discovery of one handler is a single step: after it every link
\* it selected has exactly one Job, the one it had before if it had one, and
\* the Jobs the step creates are for selected links with the captured page
\* as parent; so two handlers in flight that discover the same URL string
\* create one Job for it, in whichever order they return.
C30_Step ==
    \A k \in CapturedNow :
        LET job == jobs[running[k].job]
            links == Discover(job, visited)
        IN  /\ \A n \in DOMAIN links :
                  /\ Cardinality(WithUrl(jobs', links[n])) = 1
                  /\ WithUrl(jobs, links[n]) # {} =>
                        WithUrl(jobs', links[n]) = WithUrl(jobs, links[n])
            /\ \A i \in DOMAIN jobs' \ DOMAIN jobs :
                  /\ \E n \in DOMAIN links : links[n] = jobs'[i].url
                  /\ jobs'[i].parentUrl = job.url

C30_Inv == \A i, j \in DOMAIN jobs : jobs[i].url = jobs[j].url => i = j

C30_OneJobPerDiscoveredUrl == []C30_Inv /\ [][C30_Step]_vars

\* C30 witness: the two seeds were pulled by the first poll and ran once
\* each, so their handlers were in flight together; both pages link to
\* https://a.com/y; the first to return created its Job, the second got
\* null from addUrl, and there is one Job for it.
C30_Witness ==
    /\ ret = [url |-> PY, job |-> 0]
    /\ Cardinality(WithUrl(jobs, PY)) = 1
    /\ \E i, j, c \in DOMAIN jobs :
          /\ jobs[i].url = Root
          /\ jobs[j].url = PXs
          /\ jobs[i].status = "completed" /\ jobs[i].retryCount = 0
          /\ jobs[j].status = "completed" /\ jobs[j].retryCount = 0
          /\ jobs[c].url = PY
          /\ jobs[c].parentUrl \in {Root, PXs}
          /\ normalizeUrl(Root) \in captures
          /\ normalizeUrl(PXs) \in captures

\* The tasks whose handler is suspended in an await.
InFlight == {k \in DOMAIN running : running[k].phase \in {"delay", "fetch", "caption"}}

\* Every handler invocation terminates: time and again no handler is in flight.
HandlersTerminate == []<>(InFlight = {})

\* C31: if every handler invocation terminates, then once stop() has been called during processing, JobQueue.process (and
\* with it Venom.crawl) eventually returns, whatever the concurrency and the
\* number of tasks in the worker pool.
C31_StopReturns == HandlersTerminate => (Stopped ~> (pc = "returned"))

\* The ids a Job of the crawl can have: addUrl creates one Job per URL string.
JobIds == 1..Cardinality(Urls)

\* C32: if every handler invocation terminates, a Job that is crawling eventually is completed, pending or failed,
\* and no Job is crawling once process has returned.
C32_CrawlingSettles ==
    HandlersTerminate =>
        /\ \A i \in JobIds :
              (i \in DOMAIN jobs /\ jobs[i].status = "crawling")
                  ~> (i \in DOMAIN jobs /\ jobs[i].status \in {"completed", "pending", "failed"})
        /\ [](pc = "returned" => \A i \in DOMAIN jobs : jobs[i].status # "crawling")

\* C33: without the maxUrls option and if every handler invocation
\* terminates, once process has been called it eventually returns with every
\* Job completed or failed.
C33_AllJobsSettle ==
    HandlersTerminate =>
        ((pc # "idle") ~> (/\ pc = "returned"
                           /\ \A i \in DOMAIN jobs : jobs[i].status \in {"completed", "failed"}))

\* C33 witness: process has returned from a crawl in which a child Job,
\* enqueued by a handler after the poll had found the Frontier empty, was
\* completed and another Job failed after its retries.
C33_Witness ==
    /\ pc = "returned"
    /\ ~paused
    /\ \E i, j \in DOMAIN jobs :
          /\ ~IsSeed(jobs[i]) /\ jobs[i].status = "completed"
          /\ jobs[j].status = "failed"
    /\ \A i \in DOMAIN jobs : jobs[i].status \in {"completed", "failed"}

\* C34: completed is terminal: a Job that is completed keeps its status and
\* its retry count in every step, and no step adds a task for it to the
\* pool, also when the completion callback throws.
C34_Step ==
    \A i \in DOMAIN jobs :
        jobs[i].status = "completed" =>
            /\ jobs'[i].status = "completed"
            /\ jobs'[i].retryCount = jobs[i].retryCount
            /\ \A l \in DOMAIN poolQ' : poolQ'[l].job = i => l \in DOMAIN poolQ /\ poolQ[l].job = i
            /\ \A l \in DOMAIN running' :
                  running'[l].job = i => \E l0 \in DOMAIN running : running[l0] = running'[l]

C34_CompletedTerminal == [][C34_Step]_vars

\* C35: when the crawl has ended, every completed Job was processed: its URL
\* has a stored capture or was counted as skipped, and the completed Jobs
\* are as many as the captures and the skips counted together (no handler of
\* the crawl fails after its capture was taken).
C35_CompletedProcessed ==
    pc = "returned" =>
        /\ \A i \in DOMAIN jobs :
              jobs[i].status = "completed" =>
                  \/ normalizeUrl(jobs[i].url) \in captures
                  \/ jobs[i].url \in Disallowed /\ stats.urlsSkipped > 0
        /\ Cardinality({i \in DOMAIN jobs : jobs[i].status = "completed"})
               = stats.urlsCrawled + stats.urlsSkipped

\* C36: with maxUrls >= 1 the captures of one crawl never exceed
\* maxUrls + concurrency - 1, which is maxUrls itself when concurrency is 1;
\* while the limit is reached, the captures taken and the handlers still in
\* flight together stay within that bound.
C36_Overshoot ==
    maxUrls >= 1 =>
        /\ urlsCrawled <= maxUrls + concurrency - 1
        /\ concurrency = 1 => urlsCrawled <= maxUrls
        /\ urlsCrawled >= maxUrls => urlsCrawled + Cardinality(InFlight) <= maxUrls + concurrency - 1
        /\ Cardinality(captures) <= urlsCrawled

\* C36 witness: the limit was overshot by as much as the bound allows: with
\* concurrency 2 or more, process has returned with maxUrls + concurrency - 1
\* pages captured.
C36_Witness ==
    /\ maxUrls >= 1
    /\ concurrency >= 2
    /\ pc = "returned"
    /\ urlsCrawled = maxUrls + concurrency - 1

\* C37: maxUrls = 0 is a cap like any other value: no page is captured and
\* no handler gets past its first test, so none is ever in flight.
C37_ZeroIsCap == maxUrls = 0 => captures = {} /\ urlsCrawled = 0 /\ InFlight = {}

\* The Jobs pulled from the Frontier and not yet finished.
Crawling == {i \in DOMAIN jobs : jobs[i].status = "crawling"}

\* C38: the Jobs in status crawling are at most the concurrency plus one
\* batch, and no poll pulls a batch while a task of an earlier batch is
\* still waiting in the pool for a free worker.
C38_Step == Pulled # {} => poolQ = <<>>

C38_Backpressure ==
    /\ [](Cardinality(Crawling) <= concurrency + BatchSize)
    /\ [][C38_Step]_vars

\* A Job that was requeued after a failure and is waiting for the next poll.
Requeued(i) == jobs[i].status = "pending" /\ jobs[i].retryCount >= 1

\* The place of pulled Job i in the order of dispatch after a poll: the
\* tasks the pool has started, in the order it started them, then the tasks
\* it holds queued.
Slot(i) ==
    IF \E l \in DOMAIN running' : running'[l].job = i
    THEN CHOOSE l \in DOMAIN running' : running'[l].job = i
    ELSE Len(running') + (CHOOSE q \in DOMAIN poolQ' : poolQ'[q].job = i)

\* C39: no step changes the creation time or the priority of a Job, a
\* requeue included; and a poll dispatches a requeued Job before every Job
\* of its priority that was pending with a later creation time, and after
\* every Job of a higher priority that was pending.
C39_Step ==
    /\ \A i \in DOMAIN jobs :
          /\ jobs'[i].createdAt = jobs[i].createdAt
          /\ jobs'[i].priority = jobs[i].priority
    /\ \A i, j \in DOMAIN jobs :
          Requeued(i) /\ jobs[j].status = "pending" /\ i # j =>
              /\ (/\ jobs[j].priority = jobs[i].priority
                  /\ jobs[j].createdAt > jobs[i].createdAt
                  /\ j \in Pulled)
                    => i \in Pulled /\ Slot(i) < Slot(j)
              /\ (Rank(jobs[j].priority) < Rank(jobs[i].priority) /\ i \in Pulled)
                    => j \in Pulled /\ Slot(j) < Slot(i)

C39_RequeueKeepsPlace == [][C39_Step]_vars

\* C39 witness: a poll has just dispatched a Job on its second attempt ahead
\* of a Job of the same priority with a later creation time on its first,
\* and neither handler has got past its delay.
C39_Witness ==
    /\ pc = "wait100"
    /\ \E k, l \in DOMAIN running :
          /\ k < l
          /\ running[k].phase = "delay" /\ running[l].phase = "delay"
          /\ running[k].retryCount >= 1 /\ running[l].retryCount = 0
          /\ jobs[running[k].job].retryCount >= 1
          /\ jobs[running[k].job].priority = jobs[running[l].job].priority
          /\ jobs[running[k].job].createdAt < jobs[running[l].job].createdAt

====
